---- MODULE Spec2Model ----
(***************************************************************************)
(* State-machine model of the crmint command line: the stage commands of   *)
(* cli/commands/stages.py (create, migrate), the provisioning and deploy   *)
(* pipelines of cli/commands/cloud.py (setup, deploy, reset, begin) and    *)
(* the defaults of cli/utils/settings.py.                                  *)
(*                                                                         *)
(* One command line process runs at a time; between two processes only the *)
(* stage files, the cloud resources and the local machine persist.         *)
(***************************************************************************)
EXTENDS Integers, Sequences, FiniteSets, TLC

VARIABLES
  pyFiles,     \* cli/stages/<name>.py: stage name -> file record or NoFile
  shFiles,     \* scripts/variables/stages/<name>.sh: stage name -> mapping or NoFile
  cloud,       \* set of resources existing in the external control plane
  local,       \* set of facts about the local machine (workdir, proxy, ...)
  cmd,         \* command of the latest process ("none" before the first)
  arg,         \* its --stage_name option (NoName when not given)
  phase,       \* for begin: which sub-command is running ("create","setup","deploy")
  pc,          \* position of the process: "idle", "guard", "steps", "exit"
  components,  \* the composed list of steps of the running pipeline
  idx,         \* index in components of the next step to run
  executed,    \* steps invoked so far by this process, in order
  last,        \* record describing the latest step invocation
  skips,       \* the skip flags given to deploy
  guard,       \* outcome of the authorization guard: "none", "true", "false"
  exitStatus,  \* exit status of the latest process (NoStatus while running)
  error,       \* what ended the process abnormally ("none" otherwise)
  messages,    \* user-visible messages written by the latest process
  wrote,       \* stage names whose .py file was written by the latest process
  sourced,     \* files executed as a shell script by the latest process
  succeeded,   \* setup steps that completed successfully in an earlier invocation
  runs,        \* number of processes started so far
  env,         \* the process environment: variable -> value or Unset
  loaded       \* the boolean attributes of settings as the latest process loaded them

vars == <<pyFiles, shFiles, cloud, local, cmd, arg, phase, pc, components, idx,
          executed, last, skips, guard, exitStatus, error, messages, wrote, sourced,
          succeeded, runs, env, loaded>>

(***************************************************************************)
(* Bounds                                                                  *)
(***************************************************************************)
MaxRuns == 2
MaxFailAt == 7     \* which action command of a step fails (0: none)
MaxFlakeAt == 2    \* which probe of a step fails transiently (0: none)

StageNames == {"demo", "prod"}
NoName == "<none>"
DefaultStageName == "demo"
Passwords == {"pwA", "pwB"}

NoStatus == 0 - 1
NoFile == [exists |-> FALSE]

(***************************************************************************)
(* stages.py: versions                                                     *)
(***************************************************************************)
STAGE_VERSION_1_0 == "v1.0"
STAGE_VERSION_2_0 == "v2.0"
SUPPORTED_STAGE_VERSIONS == {STAGE_VERSION_1_0, STAGE_VERSION_2_0}
NoSpecVersion == "<unset>"
UnsupportedVersion == "v3.0"

(***************************************************************************)
(* settings.py: the module attributes it defines, and the values the model *)
(* distinguishes.  A setting without an entry in SettingValue stands for   *)
(* itself.                                                                 *)
(***************************************************************************)
SettingsDefined ==
  {"BASE_DIR", "DEBUG", "PROJECT", "REGION", "random_password",
   "DATABASE_NAME", "DATABASE_INSTANCE_NAME", "DATABASE_USER",
   "DATABASE_PASSWORD", "DATABASE_PUBLIC_IP", "DATABASE_BACKUP_ENABLED",
   "DATABASE_HA_ENABLED", "DATABASE_REGION", "DATABASE_TIER",
   "DATABASE_PROJECT", "NETWORK", "SUBNET", "SUBNET_CIDR", "CONNECTOR",
   "CONNECTOR_CIDR", "NETWORK_SERVICE_PROJECT", "NETWORK_HOST_PROJECT",
   "GAE_PROJECT", "GAE_REGION", "GAE_APP_TITLE"}

DefaultDatabaseTier == "db-g1-small"
LegacyDatabaseTier == "db-n1-standard-2"

SettingValue(setting, pw) ==
  CASE setting = "DATABASE_PASSWORD" -> pw
    [] setting = "DATABASE_TIER" -> DefaultDatabaseTier
    [] OTHER -> setting

(***************************************************************************)
(* settings.py: the boolean attributes, read from the process environment  *)
(* when the module is imported.                                            *)
(***************************************************************************)
Unset == "<unset>"
EnvValues == {Unset, "True", "False", "1"}

BooleanSettings ==
  {"DEBUG", "DATABASE_PUBLIC_IP", "DATABASE_BACKUP_ENABLED",
   "DATABASE_HA_ENABLED"}

\* os.getenv(name, default)
getenv(environ, name, default) ==
  IF environ[name] = Unset THEN default ELSE environ[name]

\* The comparisons of settings.py, lines 24 and 41 to 43.
LoadSettings(environ) ==
  [DEBUG |-> getenv(environ, "DEBUG", "False") = "True",
   DATABASE_PUBLIC_IP |-> getenv(environ, "DATABASE_PUBLIC_IP", "False") = "True",
   DATABASE_BACKUP_ENABLED |->
     getenv(environ, "DATABASE_BACKUP_ENABLED", "False") = "True",
   DATABASE_HA_ENABLED |->
     getenv(environ, "DATABASE_HA_ENABLED", "True") = "False"]

NoSettings == [none |-> TRUE]
NoEnvironment == [v \in BooleanSettings |-> Unset]

(***************************************************************************)
(* stages.py: _default_stage_context.  Each field of the context and the   *)
(* settings attribute it reads, in the order of the keyword arguments      *)
(* ("" for the fields formatted from the stage name).                      *)
(***************************************************************************)
ContextFields ==
  << <<"service_account_file", "">>,
     <<"project_id", "PROJECT">>,
     <<"project_region", "REGION">>,
     <<"workdir", "">>,
     <<"database_name", "DATABASE_NAME">>,
     <<"database_region", "DATABASE_REGION">>,
     <<"database_tier", "DATABASE_TIER">>,
     <<"database_username", "DATABASE_USER">>,
     <<"database_password", "DATABASE_PASSWORD">>,
     <<"database_instance_name", "DATABASE_INSTANCE_NAME">>,
     <<"database_public_ip", "DATABASE_PUBLIC_IP">>,
     <<"database_backup_enabled", "DATABASE_BACKUP_ENABLED">>,
     <<"database_ha_enabled", "DATABASE_HA_ENABLED">>,
     <<"database_project", "DATABASE_PROJECT">>,
     <<"network", "NETWORK">>,
     <<"subnet", "SUBNET">>,
     <<"subnet_region", "SUBNET_REGION">>,
     <<"subnet_cidr", "SUBNET_CIDR">>,
     <<"connector", "CONNECTOR">>,
     <<"connector_subnet", "CONNECTOR_SUBNET">>,
     <<"connector_cidr", "CONNECTOR_CIDR">>,
     <<"connector_min_instances", "CONNECTOR_MIN_INSTANCES">>,
     <<"connector_max_instances", "CONNECTOR_MAX_INSTANCES">>,
     <<"connector_machine_type", "CONNECTOR_MACHINE_TYPE">>,
     <<"network_project", "NETWORK_PROJECT">>,
     <<"gae_project", "GAE_PROJECT">>,
     <<"gae_region", "GAE_REGION">>,
     <<"gae_app_title", "GAE_APP_TITLE">>,
     <<"notification_sender_email", "">> >>

ContextFieldNames == {ContextFields[i][1] : i \in DOMAIN ContextFields}

SettingOf(field) ==
  LET i == CHOOSE j \in DOMAIN ContextFields : ContextFields[j][1] = field
  IN ContextFields[i][2]

\* The settings attributes _default_stage_context reads that settings.py
\* does not define: reading one raises AttributeError.
UndefinedSettings(defined) ==
  {ContextFields[i][2] : i \in DOMAIN ContextFields} \ (defined \cup {""})

\* Result of _default_stage_context(stage_name) in a process whose
\* settings.random_password is pw.
_default_stage_context(stage_name, pw) ==
  IF UndefinedSettings(SettingsDefined) # {}
  THEN [raised |-> "AttributeError", context |-> <<>>]
  ELSE [raised |-> "none",
        context |-> [f \in ContextFieldNames |->
                       IF SettingOf(f) = "" THEN stage_name
                       ELSE SettingValue(SettingOf(f), pw)]]

(***************************************************************************)
(* Stage files.  A current-format file is a record holding the module      *)
(* attribute spec_version (NoSpecVersion when the file does not set it)    *)
(* and its fields; a legacy file is the mapping of the shell variables it  *)
(* assigns.                                                                *)
(***************************************************************************)
ResolveName(stage_name) ==
  IF stage_name = NoName THEN DefaultStageName ELSE stage_name

check_stage_file(files, stage_name) == files[stage_name].exists

\* The fields STAGE_FILE_TEMPLATE formats: the current schema.
TemplateFields == ContextFieldNames

\* STAGE_FILE_TEMPLATE.format(**context): keys of the context that the
\* template does not name are ignored.
RenderStageFile(context) ==
  [exists |-> TRUE,
   spec_version |-> STAGE_VERSION_2_0,
   fields |-> [f \in TemplateFields |-> context[f]]]

NoContext == [none |-> TRUE]

\* A variant that opens the file for writing (truncating it) before the
\* context is built.
TruncatedFile ==
  [exists |-> TRUE, spec_version |-> NoSpecVersion, fields |-> [f \in {} |-> ""]]

_create_stage_file_OpenFirst(files, stage_name, context, pw) ==
  LET ctx == IF context = NoContext
             THEN _default_stage_context(stage_name, pw)
             ELSE [raised |-> "none", context |-> context]
  IN IF ctx.raised # "none"
     THEN [raised |-> ctx.raised,
           files |-> [files EXCEPT ![stage_name] = TruncatedFile]]
     ELSE [raised |-> "none",
           files |-> [files EXCEPT ![stage_name] = RenderStageFile(ctx.context)]]

\* _create_stage_file(stage_name, context=None): the context is built
\* before the file is opened for writing.
_create_stage_file(files, stage_name, context, pw) ==
  LET ctx == IF context = NoContext
             THEN _default_stage_context(stage_name, pw)
             ELSE [raised |-> "none", context |-> context]
  IN IF ctx.raised # "none"
     THEN [raised |-> ctx.raised, files |-> files]
     ELSE [raised |-> "none",
           files |-> [files EXCEPT ![stage_name] = RenderStageFile(ctx.context)]]

\* A variant that accepts whatever version the .py file carries.
_detect_stage_version_AnyVersion(py, sh, stage_name) ==
  IF py[stage_name].exists
  THEN [raised |-> "none", msg |-> "",
        version |-> IF py[stage_name].spec_version = NoSpecVersion
                    THEN STAGE_VERSION_2_0 ELSE py[stage_name].spec_version,
        path |-> "py"]
  ELSE IF sh[stage_name].exists
  THEN [raised |-> "none", msg |-> "",
        version |-> STAGE_VERSION_1_0, path |-> "sh"]
  ELSE [raised |-> "ValueError", msg |-> "no_stage_file",
        version |-> "", path |-> ""]

\* A variant that looks at the legacy .sh file first.
_detect_stage_version_LegacyFirst(py, sh, stage_name) ==
  IF sh[stage_name].exists
  THEN [raised |-> "none", msg |-> "",
        version |-> STAGE_VERSION_1_0, path |-> "sh"]
  ELSE IF py[stage_name].exists
  THEN LET stage_version ==
             IF py[stage_name].spec_version = NoSpecVersion
             THEN STAGE_VERSION_2_0 ELSE py[stage_name].spec_version
       IN IF stage_version \notin SUPPORTED_STAGE_VERSIONS
          THEN [raised |-> "ValueError", msg |-> "unsupported_version",
                version |-> stage_version, path |-> "py"]
          ELSE [raised |-> "none", msg |-> "",
                version |-> stage_version, path |-> "py"]
  ELSE [raised |-> "ValueError", msg |-> "no_stage_file",
        version |-> "", path |-> ""]

\* _detect_stage_version(stage_name): the .py file is looked at first.
_detect_stage_version(py, sh, stage_name) ==
  IF py[stage_name].exists
  THEN LET stage_version ==
             IF py[stage_name].spec_version = NoSpecVersion
             THEN STAGE_VERSION_2_0 ELSE py[stage_name].spec_version
       IN IF stage_version \notin SUPPORTED_STAGE_VERSIONS
          THEN [raised |-> "ValueError", msg |-> "unsupported_version",
                version |-> stage_version, path |-> "py"]
          ELSE [raised |-> "none", msg |-> "",
                version |-> stage_version, path |-> "py"]
  ELSE IF sh[stage_name].exists
  THEN [raised |-> "none", msg |-> "",
        version |-> STAGE_VERSION_1_0, path |-> "sh"]
  ELSE [raised |-> "ValueError", msg |-> "no_stage_file",
        version |-> "", path |-> ""]

\* What "source <file> && set" prints, as the mapping the loop over
\* out.split("\n") builds: the variables the sourced file assigns, the
\* variables of the shell itself and the empty key of the last, empty line.
ShellOwnVars == [BASH |-> "/bin/bash"]
EmptyLine == [k \in {""} |-> ""]

Overlay(base, over) ==
  [k \in DOMAIN base \cup DOMAIN over |->
     IF k \in DOMAIN over THEN over[k] ELSE base[k]]

SourcedVars(py, sh, stage_name, path) ==
  IF path = "sh" THEN sh[stage_name].assigns ELSE EmptyLine

ParsedOutput(py, sh, stage_name, path) ==
  Overlay(Overlay(ShellOwnVars, SourcedVars(py, sh, stage_name, path)), EmptyLine)

\* A variant that parses the file of every supported version.
_parse_old_stage_file_AnyVersion(py, sh, stage_name, status) ==
  LET d == _detect_stage_version(py, sh, stage_name)
  IN IF d.raised # "none"
     THEN [raised |-> d.raised, msg |-> d.msg, old_stage |-> NoContext,
           sourced |-> {}]
     ELSE IF status # 0
     THEN [raised |-> "ActionFailure", msg |-> "", old_stage |-> NoContext,
           sourced |-> {<<stage_name, d.path>>}]
     ELSE [raised |-> "none", msg |-> "",
           old_stage |-> ParsedOutput(py, sh, stage_name, d.path),
           sourced |-> {<<stage_name, d.path>>}]

\* _parse_old_stage_file(stage_name); status is the exit status of the
\* "source" command, which execute_command runs with the default
\* report_empty_err.
_parse_old_stage_file(py, sh, stage_name, status) ==
  LET d == _detect_stage_version(py, sh, stage_name)
  IN IF d.raised # "none"
     THEN [raised |-> d.raised, msg |-> d.msg, old_stage |-> NoContext,
           sourced |-> {}]
     ELSE IF d.version = STAGE_VERSION_1_0
     THEN IF status # 0
          THEN [raised |-> "ActionFailure", msg |-> "", old_stage |-> NoContext,
                sourced |-> {<<stage_name, d.path>>}]
          ELSE [raised |-> "none", msg |-> "",
                old_stage |-> ParsedOutput(py, sh, stage_name, d.path),
                sourced |-> {<<stage_name, d.path>>}]
     ELSE [raised |-> "none", msg |-> "", old_stage |-> NoContext,
           sourced |-> {}]

(***************************************************************************)
(* stages.py: the commands.  Each returns the stage files it leaves, its   *)
(* exit status, the exception that ended it ("none" otherwise), the        *)
(* messages it wrote and the files it wrote or sourced.                    *)
(***************************************************************************)
Outcome(files, status, err, msgs, wr, src) ==
  [files |-> files, status |-> status, error |-> err, messages |-> msgs,
   wrote |-> wr, sourced |-> src]

\* create(stage_name)
create(files, stage_name, pw) ==
  IF check_stage_file(files, stage_name)
  THEN Outcome(files, 1, "none", {"stage_exists"}, {}, {})
  ELSE LET r == _create_stage_file(files, stage_name, NoContext, pw)
       IN IF r.raised # "none"
          THEN Outcome(r.files, 1, r.raised, {}, {}, {})
          ELSE Outcome(r.files, 0, "none", {"stage_created"}, {stage_name}, {})

\* _create(stage_name), called by begin: an existing stage is reported and
\* the function goes on (pass) to _create_stage_file.
_create(files, stage_name, pw) ==
  LET said == IF check_stage_file(files, stage_name)
              THEN {"stage_exists"} ELSE {}
      r == _create_stage_file(files, stage_name, NoContext, pw)
  IN IF r.raised # "none"
     THEN Outcome(r.files, 1, r.raised, said, {}, {})
     ELSE Outcome(r.files, 0, "none", said \cup {"stage_created"},
                  {stage_name}, {})

\* migrate(stage_name)
migrate(py, sh, stage_name, pw, status) ==
  LET old == _parse_old_stage_file(py, sh, stage_name, status)
  IN IF old.raised = "ValueError"
     THEN Outcome(py, 1, "none", {old.msg}, {}, old.sourced)
     ELSE IF old.raised # "none"
     THEN Outcome(py, 1, old.raised, {}, {}, old.sourced)
     ELSE IF old.old_stage = NoContext
     THEN Outcome(py, 0, "none", {"already_latest"}, {}, old.sourced)
     ELSE LET new_stage == _default_stage_context(stage_name, pw)
          IN IF new_stage.raised # "none"
             THEN Outcome(py, 1, new_stage.raised, {}, {}, old.sourced)
             ELSE LET r == _create_stage_file(py, stage_name,
                             Overlay(new_stage.context, old.old_stage), pw)
                  IN IF r.raised # "none"
                     THEN Outcome(r.files, 1, r.raised, {}, {}, old.sourced)
                     ELSE Outcome(r.files, 0, "none", {"migrated"},
                                  {stage_name}, old.sourced)

(***************************************************************************)
(* The command executor and the external world.  A step runs over a record *)
(* st: the cloud and local resources, the commands issued so far (log),    *)
(* the exit statuses of its probes, and whether the process has been       *)
(* halted.  failAt picks the action command of the step that exits         *)
(* non-zero, flakeAt the probe that exits non-zero although its resource   *)
(* exists.                                                                 *)
(***************************************************************************)
Begun(c, l) ==
  [cloud |-> c, local |-> l, log |-> <<>>, statuses |-> <<>>,
   halted |-> FALSE, error |-> "none", nact |-> 0, nprobe |-> 0,
   failedAt |-> 0, flaked |-> FALSE]

\* Exit status of a read-only query for resource res.
ProbeStatus(st, res, flakeAt) ==
  IF res \in st.cloud /\ st.nprobe + 1 # flakeAt THEN 0 ELSE 1

\* execute_command(..., report_empty_err=False) of a read-only query: the
\* status is returned to the caller whatever it is.
Probe(st, what, res, flakeAt) ==
  IF st.halted THEN st
  ELSE [st EXCEPT !.log = Append(@, what),
                  !.nprobe = @ + 1,
                  !.statuses = Append(@, ProbeStatus(st, res, flakeAt)),
                  !.flaked = @ \/ (res \in st.cloud
                                   /\ ProbeStatus(st, res, flakeAt) # 0)]

\* A look at a local file, as shared.check_service_account_file.
LocalCheck(st, what, res) ==
  IF st.halted THEN st
  ELSE [st EXCEPT !.log = Append(@, what),
                  !.nprobe = @ + 1,
                  !.statuses = Append(@, IF res \in st.local THEN 0 ELSE 1)]

\* A variant that takes any answer of the probe for "exists".
Exists_AnyStatus(st) == Len(st.statuses) > 0

\* The status the latest probe returned: "return status == 0".
Exists(st) == Len(st.statuses) > 0 /\ st.statuses[Len(st.statuses)] = 0

\* Exit status of an action command: the control plane rejects the
\* creation of a resource that exists.
ActionStatus(st, kind, res, failAt) ==
  IF st.nact + 1 = failAt \/ (kind = "create" /\ res \in st.cloud)
  THEN 1 ELSE 0

Effect(st, kind, res) ==
  CASE kind = "create" -> [st EXCEPT !.cloud = @ \cup {res}]
    [] kind = "local" -> [st EXCEPT !.local = @ \cup {res}]
    [] kind = "unlocal" -> [st EXCEPT !.local = @ \ {res}]
    [] OTHER -> st

\* A variant in which a failed command is only reported.
OnFailure_Reported(st) == st

\* What follows a non-zero exit status of a command run with the default
\* report_empty_err: the process is halted.
OnFailure(st) == [st EXCEPT !.halted = TRUE, !.error = "ActionFailure"]

\* execute_command(...) with the default report_empty_err.
execute_command(st, what, kind, res, failAt) ==
  IF st.halted THEN st
  ELSE LET issued == [st EXCEPT !.log = Append(@, what), !.nact = @ + 1]
       IN IF ActionStatus(st, kind, res, failAt) # 0
          THEN OnFailure([issued EXCEPT !.failedAt =
                            IF @ = 0 THEN Len(issued.log) ELSE @])
          ELSE Effect(issued, kind, res)

(***************************************************************************)
(* cloud.py: the setup steps                                               *)
(***************************************************************************)
downgrade_app_engine_python(st, f, k) ==
  execute_command(st, "apt-get install app-engine-python", "none", "", f)

activate_services(st, f, k) ==
  execute_command(st, "services enable", "none", "", f)

\* A variant that connects the peering whatever the peering probe answers.
create_vpc_connect_only(st, f, k) ==
  LET s1 == Probe(st, "networks describe", "vpc", k)
  IN IF Exists(s1) THEN s1
     ELSE LET s2 == execute_command(s1, "networks create", "create", "vpc", f)
              s3 == execute_command(s2, "addresses create", "create", "addr", f)
              s4 == Probe(s3, "vpc-peerings list", "peering", k)
          IN execute_command(s4, "vpc-peerings connect", "create", "peering", f)

create_vpc(st, f, k) ==
  LET s1 == Probe(st, "networks describe", "vpc", k)
  IN IF Exists(s1) THEN s1
     ELSE LET s2 == execute_command(s1, "networks create", "create", "vpc", f)
              s3 == execute_command(s2, "addresses create", "create", "addr", f)
              s4 == Probe(s3, "vpc-peerings list", "peering", k)
          IN IF Exists(s4)
             THEN execute_command(s4, "vpc-peerings update", "none", "", f)
             ELSE execute_command(s4, "vpc-peerings connect", "create",
                                  "peering", f)

create_subnet(st, f, k) ==
  LET s1 == Probe(st, "subnets describe subnet", "subnet", k)
      s2 == IF Exists(s1) THEN s1
            ELSE execute_command(s1, "subnets create subnet", "create",
                                 "subnet", f)
      s3 == Probe(s2, "subnets describe connector_subnet",
                  "connector_subnet", k)
  IN IF Exists(s3) THEN s3
     ELSE execute_command(s3, "subnets create connector_subnet", "create",
                          "connector_subnet", f)

create_vpc_connector(st, f, k) ==
  LET s1 == Probe(st, "connectors describe", "connector", k)
  IN IF Exists(s1) THEN s1
     ELSE execute_command(s1, "connectors create", "create", "connector", f)

create_appengine(st, f, k) ==
  LET s1 == Probe(st, "app describe", "appengine", k)
  IN IF Exists(s1) THEN s1
     ELSE execute_command(s1, "app create", "create", "appengine", f)

create_service_account_key_if_needed(st, f, k) ==
  LET s1 == LocalCheck(st, "check service account file", "service_account_key")
  IN IF Exists(s1) THEN s1
     ELSE execute_command(s1, "service-accounts keys create", "local",
                          "service_account_key", f)

grant_required_permissions(st, f, k) ==
  LET s1 == execute_command(st, "projects list", "none", "", f)
      s2 == execute_command(s1, "add-iam-policy-binding 1", "none", "", f)
      s3 == execute_command(s2, "add-iam-policy-binding 2", "none", "", f)
  IN execute_command(s3, "add-iam-policy-binding 3", "none", "", f)

\* A variant that creates the instance whatever the probe answers.
create_mysql_instance_unchecked(st, f, k) ==
  execute_command(Probe(st, "sql instances describe", "instance", k),
                  "sql instances create", "create", "instance", f)

create_mysql_instance_if_needed(st, f, k) ==
  LET s1 == Probe(st, "sql instances describe", "instance", k)
  IN IF Exists(s1) THEN s1
     ELSE execute_command(s1, "sql instances create", "create", "instance", f)

\* A variant that creates the user whatever the probe answers.
create_mysql_user_always(st, f, k) ==
  execute_command(Probe(st, "sql users list", "user", k),
                  "sql users create", "create", "user", f)

create_mysql_user_if_needed(st, f, k) ==
  LET s1 == Probe(st, "sql users list", "user", k)
  IN IF Exists(s1)
     THEN execute_command(s1, "sql users set-password", "none", "", f)
     ELSE execute_command(s1, "sql users create", "create", "user", f)

create_mysql_database_if_needed(st, f, k) ==
  LET s1 == Probe(st, "sql databases list", "database", k)
  IN IF Exists(s1) THEN s1
     ELSE execute_command(s1, "sql databases create", "create", "database", f)

download_config_files(st, f, k) ==
  execute_command(st, "cloudshell download-files", "none", "", f)

(***************************************************************************)
(* cloud.py: the deploy and reset steps                                    *)
(***************************************************************************)
install_required_packages(st, f, k) ==
  LET s1 == execute_command(st, "mkdir ~/.cloudshell", "none", "", f)
      s2 == execute_command(s1, "touch no-apt-get-warning", "none", "", f)
  IN execute_command(s2, "apt-get install rsync", "none", "", f)

display_workdir(st, f, k) == st

copy_src_to_workdir(st, f, k) ==
  LET s1 == execute_command(st, "rsync", "local", "workdir", f)
      s2 == execute_command(s1, "cp insight.json", "none", "", f)
      s3 == execute_command(s2, "cp service-account.json", "none", "", f)
      s4 == execute_command(s3, "write config.py", "none", "", f)
      s5 == execute_command(s4, "write app.json", "none", "", f)
  IN execute_command(s5, "write environment.ts", "none", "", f)

install_backends_dependencies(st, f, k) ==
  LET s1 == execute_command(st, "wget my_config.h", "none", "", f)
      s2 == execute_command(s1, "virtualenv env", "none", "", f)
      s3 == execute_command(s2, "mkdir lib", "none", "", f)
      s4 == execute_command(s3, "pip install ibackend", "none", "", f)
      s5 == execute_command(s4, "pip install jbackend", "none", "", f)
      s6 == execute_command(s5, "cp patches", "none", "", f)
  IN execute_command(s6, "rm pyc", "none", "", f)

\* The connector block is merged into the YAML descriptors of the working
\* directory; any failure to do so ends the process with exit(1).
InsertConnectorConfig(st) ==
  IF st.halted THEN st
  ELSE IF "workdir" \in st.local THEN st
  ELSE [st EXCEPT !.halted = TRUE, !.error = "yaml"]

deploy_frontend(st, f, k) ==
  LET s0 == InsertConnectorConfig(st)
      s1 == execute_command(s0, "npm install", "none", "", f)
      s2 == execute_command(s1, "ng build", "none", "", f)
  IN execute_command(s2, "app deploy gae.yaml", "none", "", f)

deploy_backends(st, f, k) ==
  LET s0 == InsertConnectorConfig(st)
      s1 == execute_command(s0, "app deploy gae_ibackend.yaml", "none", "", f)
      s2 == execute_command(s1, "app deploy gae_jbackend.yaml", "none", "", f)
  IN execute_command(s2, "app deploy cron.yaml", "none", "", f)

deploy_dispatch_rules(st, f, k) ==
  execute_command(st, "app deploy dispatch.yaml", "none", "", f)

download_cloud_sql_proxy(st, f, k) ==
  IF "/usr/bin/cloud_sql_proxy" \in st.local THEN st
  ELSE IF "~/bin/cloud_sql_proxy" \in st.local THEN st
  ELSE execute_command(st, "curl cloud_sql_proxy", "local",
                       "~/bin/cloud_sql_proxy", f)

start_cloud_sql_proxy(st, f, k) ==
  LET s1 == execute_command(st, "mkdir cloudsql_dir", "none", "", f)
      s2 == execute_command(s1, "echo CLOUD_SQL_PROXY", "none", "", f)
      s3 == execute_command(s2, "cloud_sql_proxy &", "local", "proxy_running", f)
  IN execute_command(s3, "sleep 5", "none", "", f)

stop_cloud_sql_proxy(st, f, k) ==
  execute_command(st, "kill cloud_sql_proxy", "unlocal", "proxy_running", f)

prepare_flask_envars(st, f, k) ==
  execute_command(st, "write local config.py", "none", "", f)

_run_flask_command(st, flask_command_name, f) ==
  execute_command(st, flask_command_name, "none", "", f)

run_flask_db_upgrade(st, f, k) ==
  _run_flask_command(st, "flask db upgrade", f)

run_flask_db_seeds(st, f, k) ==
  _run_flask_command(st, "flask db-seeds", f)

run_reset_pipelines(st, f, k) ==
  _run_flask_command(st, "flask reset-pipelines", f)

\* component(stage, debug=debug) for the component of that name.
RunComponent(name, st, f, k) ==
  CASE name = "downgrade_app_engine_python" -> downgrade_app_engine_python(st, f, k)
    [] name = "activate_services" -> activate_services(st, f, k)
    [] name = "create_vpc" -> create_vpc(st, f, k)
    [] name = "create_subnet" -> create_subnet(st, f, k)
    [] name = "create_vpc_connector" -> create_vpc_connector(st, f, k)
    [] name = "create_appengine" -> create_appengine(st, f, k)
    [] name = "create_service_account_key_if_needed" ->
         create_service_account_key_if_needed(st, f, k)
    [] name = "grant_required_permissions" -> grant_required_permissions(st, f, k)
    [] name = "create_mysql_instance_if_needed" ->
         create_mysql_instance_if_needed(st, f, k)
    [] name = "create_mysql_user_if_needed" -> create_mysql_user_if_needed(st, f, k)
    [] name = "create_mysql_database_if_needed" ->
         create_mysql_database_if_needed(st, f, k)
    [] name = "download_config_files" -> download_config_files(st, f, k)
    [] name = "install_required_packages" -> install_required_packages(st, f, k)
    [] name = "display_workdir" -> display_workdir(st, f, k)
    [] name = "copy_src_to_workdir" -> copy_src_to_workdir(st, f, k)
    [] name = "install_backends_dependencies" ->
         install_backends_dependencies(st, f, k)
    [] name = "deploy_frontend" -> deploy_frontend(st, f, k)
    [] name = "deploy_backends" -> deploy_backends(st, f, k)
    [] name = "deploy_dispatch_rules" -> deploy_dispatch_rules(st, f, k)
    [] name = "download_cloud_sql_proxy" -> download_cloud_sql_proxy(st, f, k)
    [] name = "start_cloud_sql_proxy" -> start_cloud_sql_proxy(st, f, k)
    [] name = "prepare_flask_envars" -> prepare_flask_envars(st, f, k)
    [] name = "run_flask_db_upgrade" -> run_flask_db_upgrade(st, f, k)
    [] name = "run_flask_db_seeds" -> run_flask_db_seeds(st, f, k)
    [] name = "run_reset_pipelines" -> run_reset_pipelines(st, f, k)
    [] name = "stop_cloud_sql_proxy" -> stop_cloud_sql_proxy(st, f, k)

\* The functions cloud.py defines; a component list naming any other
\* raises NameError when it is built.
CloudFunctions ==
  {"downgrade_app_engine_python", "activate_services", "create_vpc",
   "create_subnet", "create_vpc_connector", "create_appengine",
   "create_service_account_key_if_needed", "grant_required_permissions",
   "create_mysql_instance_if_needed", "create_mysql_user_if_needed",
   "create_mysql_database_if_needed", "download_config_files",
   "install_required_packages", "display_workdir", "copy_src_to_workdir",
   "install_backends_dependencies", "deploy_frontend", "deploy_backends",
   "deploy_dispatch_rules", "download_cloud_sql_proxy",
   "start_cloud_sql_proxy", "prepare_flask_envars", "run_flask_db_upgrade",
   "run_flask_db_seeds", "run_reset_pipelines", "stop_cloud_sql_proxy",
   "create_firewall_rules", "confirm_authorized_user_owner_role"}

(***************************************************************************)
(* cloud.py: the component lists of the commands                           *)
(***************************************************************************)
\* A variant that creates the App Engine application before the connector.
SetupComponents_AppEngineFirst ==
  <<"downgrade_app_engine_python", "activate_services", "create_vpc",
    "create_subnet", "create_appengine", "create_vpc_connector",
    "create_service_account_key_if_needed", "grant_required_permissions",
    "create_mysql_instance_if_needed", "create_mysql_user_if_needed",
    "create_mysql_database_if_needed", "download_config_files">>

SetupComponents ==
  <<"downgrade_app_engine_python", "activate_services", "create_vpc",
    "create_subnet", "create_vpc_connector", "create_appengine",
    "create_service_account_key_if_needed", "grant_required_permissions",
    "create_mysql_instance_if_needed", "create_mysql_user_if_needed",
    "create_mysql_database_if_needed", "download_config_files">>

\* _setup, the setup of begin
InnerSetupComponents ==
  <<"downgrade_app_engine_python", "activate_services", "create_appengine",
    "create_service_account_key_if_needed", "grant_cloud_build_permissions",
    "create_mysql_instance_if_needed", "create_mysql_user_if_needed",
    "create_mysql_database_if_needed", "download_config_files">>

\* A variant that starts the proxy after the database migrations.
DeployComponents_LateProxy ==
  <<"install_required_packages", "display_workdir", "copy_src_to_workdir",
    "install_backends_dependencies", "deploy_frontend", "deploy_backends",
    "deploy_dispatch_rules", "download_cloud_sql_proxy",
    "prepare_flask_envars", "run_flask_db_upgrade", "start_cloud_sql_proxy",
    "run_flask_db_seeds", "stop_cloud_sql_proxy">>

DeployComponents ==
  <<"install_required_packages", "display_workdir", "copy_src_to_workdir",
    "install_backends_dependencies", "deploy_frontend", "deploy_backends",
    "deploy_dispatch_rules", "download_cloud_sql_proxy",
    "start_cloud_sql_proxy", "prepare_flask_envars", "run_flask_db_upgrade",
    "run_flask_db_seeds", "stop_cloud_sql_proxy">>

ResetComponents ==
  <<"install_required_packages", "display_workdir", "copy_src_to_workdir",
    "install_backends_dependencies", "download_cloud_sql_proxy",
    "start_cloud_sql_proxy", "prepare_flask_envars", "run_reset_pipelines",
    "stop_cloud_sql_proxy">>

Range(seq) == {seq[i] : i \in DOMAIN seq}

\* A variant that drops the last element (pop) instead of x.
Remove_Pop(seq, x) == SubSeq(seq, 1, Len(seq) - 1)

\* list.remove(x): the list without the first occurrence of x.
Remove(seq, x) ==
  LET i == CHOOSE j \in DOMAIN seq :
             seq[j] = x /\ \A h \in 1..(j - 1) : seq[h] # x
  IN [j \in 1..(Len(seq) - 1) |-> IF j < i THEN seq[j] ELSE seq[j + 1]]

\* The list deploy runs, after the two skip flags have been applied.
ComposeDeploy(skip_deploy_backends, skip_deploy_frontend) ==
  LET c1 == IF skip_deploy_backends /\ "deploy_backends" \in Range(DeployComponents)
            THEN Remove(DeployComponents, "deploy_backends")
            ELSE DeployComponents
  IN IF skip_deploy_frontend /\ "deploy_frontend" \in Range(c1)
     THEN Remove(c1, "deploy_frontend")
     ELSE c1

(***************************************************************************)
(* Process bookkeeping                                                     *)
(***************************************************************************)
NoLast == [step |-> "none", again |-> FALSE, ok |-> TRUE, probes |-> 0,
           actions |-> 0, log |-> <<>>, statuses |-> <<>>, failedAt |-> 0,
           flaked |-> FALSE]

CanStart == pc \in {"idle", "exit"} /\ runs < MaxRuns

Args == StageNames \cup {NoName}

\* A process that ran a stage command to its end in one step.
RanStageCommand(c, a, o) ==
  /\ cmd' = c
  /\ arg' = a
  /\ phase' = "none"
  /\ pc' = "exit"
  /\ components' = <<>>
  /\ idx' = 1
  /\ executed' = <<>>
  /\ last' = NoLast
  /\ skips' = {}
  /\ guard' = "none"
  /\ pyFiles' = o.files
  /\ exitStatus' = o.status
  /\ error' = o.error
  /\ messages' = o.messages
  /\ wrote' = o.wrote
  /\ sourced' = o.sourced
  /\ runs' = runs + 1
  /\ loaded' = LoadSettings(env)
  /\ UNCHANGED <<shFiles, cloud, local, succeeded, env>>

Create ==
  /\ CanStart
  /\ \E a \in Args, pw \in Passwords :
       RanStageCommand("create", a, create(pyFiles, ResolveName(a), pw))

Migrate ==
  /\ CanStart
  /\ \E a \in Args, pw \in Passwords, status \in {0, 1} :
       RanStageCommand("migrate", a,
                       migrate(pyFiles, shFiles, ResolveName(a), pw, status))

(***************************************************************************)
(* cloud.py: the pipeline commands                                         *)
(***************************************************************************)
\* fetch_stage_or_default(stage_name): None when the stage file is missing,
\* the pair (stage_name, stage) otherwise.
fetch_stage_or_default(files, stage_name) ==
  IF ~check_stage_file(files, stage_name)
  THEN [value |-> "None", messages |-> {"stage_not_found"}]
  ELSE [value |-> "pair", messages |-> {}]

\* "stage_name, stage = fetch_stage_or_default(...)": None cannot be
\* unpacked.
Unpack(value) == IF value = "None" THEN "TypeError" ELSE "none"

\* Building a component list evaluates every name in it.
BuildList(list) ==
  IF Range(list) \subseteq CloudFunctions THEN "none" ELSE "NameError"

\* The message each command writes in its "if stage is None" branch.
FixMessage(c) ==
  CASE c = "setup" -> {}
    [] c = "_setup" -> {"fix_stages_create"}
    [] OTHER -> {"fix_cloud_setup"}

\* The prologue of setup, _setup, deploy, _deploy and reset, up to the
\* composed list: what ends it ("none" when the list is ready) and the
\* messages written.  The "if stage is None" branch is taken only when the
\* unpacking has succeeded with no stage.
Prologue(files, stage_name, list, c) ==
  LET r == fetch_stage_or_default(files, stage_name)
  IN IF Unpack(r.value) # "none"
     THEN [error |-> Unpack(r.value), messages |-> r.messages]
     ELSE IF r.value = "pair of None"
     THEN [error |-> "exit", messages |-> r.messages \cup FixMessage(c)]
     ELSE [error |-> BuildList(list), messages |-> r.messages]

\* confirm_authorized_user_owner_role returns status == 0 of its probe.
confirm_authorized_user_owner_role(status) == status = 0

\* A variant that runs the components whatever the guard answers.
AfterGuard_Ignored(authorized) == "steps"

\* setup: the components run only in the branch of an authorized user.
AfterGuard(authorized) == IF authorized THEN "steps" ELSE "exit"

Exited(status, err, msgs) ==
  /\ pc' = "exit"
  /\ exitStatus' = status
  /\ error' = err
  /\ messages' = msgs

\* A new process: everything of the previous one is forgotten.
Started(c, a, list) ==
  /\ cmd' = c
  /\ arg' = a
  /\ components' = list
  /\ idx' = 1
  /\ executed' = <<>>
  /\ last' = NoLast
  /\ guard' = "none"
  /\ sourced' = {}
  /\ runs' = runs + 1
  /\ loaded' = LoadSettings(env)
  /\ env' = env

StartPipeline(c, a, list, guarded, flags) ==
  LET p == Prologue(pyFiles, ResolveName(a), list, c)
  IN /\ Started(c, a, IF p.error = "none" THEN list ELSE <<>>)
     /\ skips' = flags
     /\ phase' = "none"
     /\ wrote' = {}
     /\ IF p.error # "none"
        THEN Exited(1, p.error, p.messages)
        ELSE /\ pc' = IF guarded THEN "guard" ELSE "steps"
             /\ exitStatus' = NoStatus
             /\ error' = "none"
             /\ messages' = p.messages
     /\ UNCHANGED <<pyFiles, shFiles, cloud, local, succeeded>>

SkipFlags(skip_deploy_backends, skip_deploy_frontend) ==
  (IF skip_deploy_backends THEN {"backends"} ELSE {})
    \cup (IF skip_deploy_frontend THEN {"frontend"} ELSE {})

StartSetup ==
  /\ CanStart
  /\ \E a \in Args : StartPipeline("setup", a, SetupComponents, TRUE, {})

StartDeploy ==
  /\ CanStart
  /\ \E a \in Args, skip_deploy_backends \in BOOLEAN,
        skip_deploy_frontend \in BOOLEAN :
       StartPipeline("deploy", a,
                     ComposeDeploy(skip_deploy_backends, skip_deploy_frontend),
                     FALSE,
                     SkipFlags(skip_deploy_backends, skip_deploy_frontend))

StartReset ==
  /\ CanStart
  /\ \E a \in Args : StartPipeline("reset", a, ResetComponents, FALSE, {})

\* begin: stages._create, then _setup up to its guard.
StartBegin ==
  /\ CanStart
  /\ \E a \in Args, pw \in Passwords :
       LET o == _create(pyFiles, ResolveName(a), pw)
           p == Prologue(o.files, ResolveName(a), InnerSetupComponents, "_setup")
       IN /\ Started("begin", a,
                     IF o.error = "none" /\ p.error = "none"
                     THEN InnerSetupComponents ELSE <<>>)
          /\ skips' = {}
          /\ pyFiles' = o.files
          /\ wrote' = o.wrote
          /\ IF o.error # "none"
             THEN /\ phase' = "create"
                  /\ Exited(1, o.error, o.messages)
             ELSE /\ phase' = "setup"
                  /\ IF p.error # "none"
                     THEN Exited(1, p.error, o.messages \cup p.messages)
                     ELSE /\ pc' = "guard"
                          /\ exitStatus' = NoStatus
                          /\ error' = "none"
                          /\ messages' = o.messages \cup p.messages
          /\ UNCHANGED <<shFiles, cloud, local, succeeded>>

\* The guard of setup and _setup: "auth list", then the owner probe.
Guard ==
  /\ pc = "guard"
  /\ \E f \in 0..1, status \in {0, 1} :
       LET st == execute_command(Begun(cloud, local), "auth list", "none", "", f)
       IN IF st.halted
          THEN /\ Exited(1, st.error, messages)
               /\ guard' = "none"
          ELSE IF AfterGuard(confirm_authorized_user_owner_role(status)) = "steps"
          THEN /\ pc' = "steps"
               /\ guard' = IF status = 0 THEN "true" ELSE "false"
               /\ messages' = messages \cup {"owner_confirmed"}
               /\ UNCHANGED <<exitStatus, error>>
          ELSE /\ Exited(1, "none", messages \cup {"not_owner"})
               /\ guard' = IF status = 0 THEN "true" ELSE "false"
  /\ UNCHANGED <<pyFiles, shFiles, cloud, local, cmd, arg, phase, components,
                 idx, executed, last, skips, wrote, sourced, succeeded,
                 runs, env, loaded>>

\* A variant that invokes again a component whose command has failed, as
\* long as the process has invoked fewer components than its list holds.
RunStep_Retry ==
  /\ pc = "steps"
  /\ idx <= Len(components)
  /\ \E f \in 0..MaxFailAt, k \in 0..MaxFlakeAt :
       LET name == components[idx]
           st == RunComponent(name, Begun(cloud, local), f, k)
       IN /\ cloud' = st.cloud
          /\ local' = st.local
          /\ executed' = Append(executed, name)
          /\ last' = [step |-> name, again |-> name \in succeeded,
                      ok |-> ~st.halted, probes |-> st.nprobe,
                      actions |-> st.nact, log |-> st.log,
                      statuses |-> st.statuses, failedAt |-> st.failedAt,
                      flaked |-> st.flaked]
          /\ IF st.halted /\ Len(executed) + 1 < Len(components)
             THEN UNCHANGED <<idx, succeeded, pc, exitStatus, error, messages>>
             ELSE IF st.halted
             THEN /\ Exited(1, st.error, messages)
                  /\ UNCHANGED <<idx, succeeded>>
             ELSE /\ idx' = idx + 1
                  /\ succeeded' = succeeded \cup ({name} \cap Range(SetupComponents))
                  /\ UNCHANGED <<pc, exitStatus, error, messages>>
  /\ UNCHANGED <<pyFiles, shFiles, cmd, arg, phase, components, skips, guard,
                 wrote, sourced, runs, env, loaded>>

\* One component of the list, run to its end or to the command that halts
\* the process.
RunStep ==
  /\ pc = "steps"
  /\ idx <= Len(components)
  /\ \E f \in 0..MaxFailAt, k \in 0..MaxFlakeAt :
       LET name == components[idx]
           st == RunComponent(name, Begun(cloud, local), f, k)
       IN /\ cloud' = st.cloud
          /\ local' = st.local
          /\ executed' = Append(executed, name)
          /\ last' = [step |-> name, again |-> name \in succeeded,
                      ok |-> ~st.halted, probes |-> st.nprobe,
                      actions |-> st.nact, log |-> st.log,
                      statuses |-> st.statuses, failedAt |-> st.failedAt,
                      flaked |-> st.flaked]
          /\ IF st.halted
             THEN /\ Exited(1, st.error, messages)
                  /\ UNCHANGED <<idx, succeeded>>
             ELSE /\ idx' = idx + 1
                  /\ succeeded' = succeeded \cup ({name} \cap Range(SetupComponents))
                  /\ UNCHANGED <<pc, exitStatus, error, messages>>
  /\ UNCHANGED <<pyFiles, shFiles, cmd, arg, phase, components, skips, guard,
                 wrote, sourced, runs, env, loaded>>

\* The end of the list: "Done."; begin goes on from _setup to _deploy.
Finish ==
  /\ pc = "steps"
  /\ idx > Len(components)
  /\ IF cmd = "begin" /\ phase = "setup"
     THEN LET p == Prologue(pyFiles, ResolveName(arg), DeployComponents, "_deploy")
          IN /\ phase' = "deploy"
             /\ components' = IF p.error = "none" THEN DeployComponents ELSE <<>>
             /\ idx' = 1
             /\ IF p.error # "none"
                THEN Exited(1, p.error, messages \cup {"done"} \cup p.messages)
                ELSE /\ messages' = messages \cup {"done"}
                     /\ UNCHANGED <<pc, exitStatus, error>>
     ELSE /\ Exited(0, "none", messages \cup {"done"})
          /\ UNCHANGED <<phase, components, idx>>
  /\ UNCHANGED <<pyFiles, shFiles, cloud, local, cmd, arg, executed, last,
                 skips, guard, wrote, sourced, succeeded, runs, env, loaded>>

(***************************************************************************)
(* Initial states: the stage files found on disk.                          *)
(***************************************************************************)
StoredFields(stage_name, pw, tier) ==
  [f \in TemplateFields |->
     CASE SettingOf(f) = "" -> stage_name
       [] f = "database_password" -> pw
       [] f = "database_tier" -> tier
       [] OTHER -> SettingOf(f)]

StoredFile(stage_name, version) ==
  [exists |-> TRUE, spec_version |-> version,
   fields |-> StoredFields(stage_name, "pwA", DefaultDatabaseTier)]

LegacyFile(assigned) == [exists |-> TRUE, assigns |-> assigned]

InitialVersions ==
  {NoSpecVersion, STAGE_VERSION_2_0, STAGE_VERSION_1_0, UnsupportedVersion}

InitialLegacyFiles ==
  {NoFile,
   LegacyFile([database_tier |-> LegacyDatabaseTier, legacy_only |-> "x"]),
   LegacyFile([legacy_only |-> "x"])}

InitProcess ==
  /\ cmd = "none"
  /\ arg = NoName
  /\ phase = "none"
  /\ pc = "idle"
  /\ components = <<>>
  /\ idx = 1
  /\ executed = <<>>
  /\ last = NoLast
  /\ skips = {}
  /\ guard = "none"
  /\ exitStatus = NoStatus
  /\ error = "none"
  /\ messages = {}
  /\ wrote = {}
  /\ sourced = {}
  /\ succeeded = {}
  /\ runs = 0
  /\ loaded = NoSettings

InitStages ==
  /\ pyFiles \in [StageNames ->
                    {NoFile} \cup {StoredFile(n, v) :
                                      n \in StageNames, v \in InitialVersions}]
  /\ \A n \in StageNames :
       pyFiles[n].exists => pyFiles[n] \in {StoredFile(n, v) : v \in InitialVersions}
  /\ shFiles \in [StageNames -> InitialLegacyFiles]
  /\ cloud = {}
  /\ local = {}
  /\ env = NoEnvironment
  /\ InitProcess

NextStages == Create \/ Migrate \/ StartBegin

SpecStages == InitStages /\ [][NextStages]_vars

\* The cloud and the machine as a process finds them: nothing provisioned,
\* possibly a peering left from an earlier network, possibly a proxy binary
\* installed system-wide.
InitialClouds == {{}, {"peering"}}
InitialLocals == {{}, {"/usr/bin/cloud_sql_proxy"}}

InitCloud ==
  /\ pyFiles = [n \in StageNames |->
                  IF n = "demo" THEN StoredFile(n, STAGE_VERSION_2_0) ELSE NoFile]
  /\ shFiles = [n \in StageNames |->
                  IF n = "demo" THEN NoFile
                  ELSE LegacyFile([database_tier |-> LegacyDatabaseTier,
                                   legacy_only |-> "x"])]
  /\ cloud \in InitialClouds
  /\ local \in InitialLocals
  /\ env = NoEnvironment
  /\ InitProcess

NextSetup == StartSetup \/ Guard \/ RunStep \/ Finish

SpecSetup == InitCloud /\ [][NextSetup]_vars

NextDeploy == StartDeploy \/ StartReset \/ RunStep \/ Finish

SpecDeploy == InitCloud /\ [][NextDeploy]_vars

\* Processes of the stage commands under every environment of the boolean
\* settings.
InitSettings ==
  /\ pyFiles = [n \in StageNames |->
                  IF n = "demo" THEN StoredFile(n, STAGE_VERSION_2_0) ELSE NoFile]
  /\ shFiles = [n \in StageNames |-> NoFile]
  /\ cloud = {}
  /\ local = {}
  /\ env \in [BooleanSettings -> EnvValues]
  /\ InitProcess

NextSettings == Create \/ Migrate

SpecSettings == InitSettings /\ [][NextSettings]_vars

Init == InitCloud

Next ==
  \/ Create
  \/ Migrate
  \/ StartSetup
  \/ StartDeploy
  \/ StartReset
  \/ StartBegin
  \/ Guard
  \/ RunStep
  \/ Finish

Spec == Init /\ [][Next]_vars

(***************************************************************************)
(* Properties                                                              *)
(***************************************************************************)
\* A step has just been invoked by the running process.
StepInvoked == executed' # executed /\ runs' = runs

\* Every step of B that has been executed comes after an execution of every
\* step of A.
RunsBefore(A, B) ==
  \A j \in DOMAIN executed :
    executed[j] \in B =>
      \A a \in A : \E i \in 1..(j - 1) : executed[i] = a

\* The setup steps made of one existence check guarding one creation, and
\* the number of existence checks a repeated invocation of a setup step
\* makes.
CheckThenCreateSteps ==
  {"create_vpc", "create_subnet", "create_vpc_connector", "create_appengine",
   "create_service_account_key_if_needed", "create_mysql_instance_if_needed",
   "create_mysql_database_if_needed"}

ChecksOf(step) == IF step = "create_subnet" THEN 2 ELSE 1

C2_GuardShortCircuit ==
  (cmd = "setup" /\ guard = "false") =>
    (executed = <<>> /\ pc = "exit" /\ exitStatus = 1)

C2_Witness ==
  cmd = "setup" /\ guard = "false" /\ pc = "exit" /\ "not_owner" \in messages

\* C3: when an action command of a step exits non-zero, it is the last
\* command the step issues, the process exits with status 1, nothing that
\* existed is removed, and no step is invoked after it by that process.
C3_ActionFailureFatal ==
  [][/\ (StepInvoked /\ last'.failedAt > 0) =>
          /\ last'.failedAt = Len(last'.log)
          /\ pc' = "exit"
          /\ exitStatus' = 1
          /\ cloud \subseteq cloud'
          /\ local \subseteq local'
     /\ (last.failedAt > 0 /\ runs' = runs) => executed' = executed]_vars

C3_Witness ==
  /\ last.step = "create_vpc"
  /\ last.failedAt = 3
  /\ "vpc" \in cloud
  /\ "addr" \notin cloud
  /\ pc = "exit"
  /\ exitStatus = 1

NetworkSteps == {"create_vpc", "create_subnet"}
DatabaseSteps ==
  {"create_mysql_instance_if_needed", "create_mysql_user_if_needed",
   "create_mysql_database_if_needed"}

\* C4 as stated: in setup the network steps run before the database steps,
\* the database steps before the connector step, and the connector step
\* before the compute step.
C4_AsStated ==
  cmd = "setup" =>
    /\ RunsBefore(NetworkSteps, DatabaseSteps)
    /\ RunsBefore(DatabaseSteps, {"create_vpc_connector"})
    /\ RunsBefore({"create_vpc_connector"}, {"create_appengine"})

\* C4, amended: in setup the network steps run before the connector step,
\* the connector step before the compute step, and the compute step (hence
\* the network and connector steps) before the database steps.
C4_SetupOrder ==
  cmd = "setup" =>
    /\ RunsBefore(NetworkSteps, {"create_vpc_connector"})
    /\ RunsBefore({"create_vpc_connector"}, {"create_appengine"})
    /\ RunsBefore({"create_appengine"}, DatabaseSteps)
    /\ RunsBefore(NetworkSteps, DatabaseSteps)

C4_Witness ==
  /\ cmd = "setup"
  /\ "create_mysql_database_if_needed" \in Range(executed)

FlaskSteps == {"run_flask_db_upgrade", "run_flask_db_seeds"}

\* C5: in deploy, whatever the skip flags, every step that has executed
\* comes after the steps whose product it uses.
C5_DeployOrder ==
  cmd = "deploy" =>
    /\ RunsBefore({"copy_src_to_workdir"},
                  {"install_backends_dependencies", "deploy_frontend",
                   "deploy_backends"} \cup FlaskSteps)
    /\ RunsBefore({"install_backends_dependencies"},
                  {"deploy_backends"} \cup FlaskSteps)
    /\ RunsBefore({"download_cloud_sql_proxy"}, {"start_cloud_sql_proxy"})
    /\ RunsBefore({"start_cloud_sql_proxy", "prepare_flask_envars"}, FlaskSteps)
    /\ RunsBefore({"run_flask_db_upgrade"}, {"run_flask_db_seeds"})

C5_Witness ==
  /\ cmd = "deploy"
  /\ skips = {"backends", "frontend"}
  /\ "run_flask_db_seeds" \in Range(executed)

\* The steps the flags remove.
Skipped(flags) ==
  (IF "backends" \in flags THEN {"deploy_backends"} ELSE {})
    \cup (IF "frontend" \in flags THEN {"deploy_frontend"} ELSE {})

Keep(flags, step) == step \notin Skipped(flags)

\* C6: the list deploy runs is the declared list without exactly the steps
\* its skip flags name, in the declared order, from before the first step
\* to the end of the run; the steps executed are a prefix of it.
C6_SkipFlagRemoval ==
  (cmd = "deploy" /\ error # "TypeError") =>
    /\ components = SelectSeq(DeployComponents, LAMBDA x : Keep(skips, x))
    /\ Len(executed) <= Len(components)
    /\ executed = SubSeq(components, 1, Len(executed))

C6_Witness ==
  /\ cmd = "deploy"
  /\ skips = {"backends"}
  /\ pc = "exit"
  /\ exitStatus = 0
  /\ Len(executed) = Len(DeployComponents) - 1

\* A process has just been started to run command c.
Ran(c) == cmd' = c /\ runs' = runs + 1

\* C7: a stage file that exists is left as it is, password included, by
\* every step of every command other than migrate.
C7_PasswordPersisted ==
  [][\A n \in StageNames :
       (pyFiles[n].exists /\ cmd' # "migrate") => pyFiles'[n] = pyFiles[n]]_vars

C7_Witness ==
  /\ cmd = "begin"
  /\ pc = "exit"
  /\ "stage_exists" \in messages
  /\ pyFiles[ResolveName(arg)] = StoredFile(ResolveName(arg), STAGE_VERSION_2_0)

\* The values the defaults give to a field of the current schema.
DefaultValues(stage_name, field) ==
  IF SettingOf(field) = "" THEN {stage_name}
  ELSE {SettingValue(SettingOf(field), pw) : pw \in Passwords}

\* C8: create on a name that has a stage file exits with status 1 and
\* leaves the files unchanged; on a name that has none it writes a stage
\* file holding the schema defaults.
C8_CreateStage ==
  [][Ran("create") =>
       LET n == ResolveName(arg')
       IN IF pyFiles[n].exists
          THEN exitStatus' = 1 /\ pyFiles' = pyFiles
          ELSE /\ pyFiles'[n].exists
               /\ \A f \in TemplateFields :
                    pyFiles'[n].fields[f] \in DefaultValues(n, f)]_vars

\* C9: setup, deploy and reset on a name that has no stage file exit with
\* status 1 after a message naming the stage creation command, execute no
\* step and create no stage file.
C9_NotFound ==
  (cmd \in {"setup", "deploy", "reset"} /\ "stage_not_found" \in messages) =>
    /\ pc = "exit"
    /\ exitStatus = 1
    /\ "fix_stages_create" \in messages
    /\ executed = <<>>
    /\ ~pyFiles[ResolveName(arg)].exists

\* C10: migrate of a stage that has only a legacy file, whose script runs,
\* writes a current-format file in which every field the legacy mapping
\* assigns has the legacy value and every other field its default.
C10_MigrationRoundTrip ==
  [][\A n \in StageNames :
       (/\ Ran("migrate")
        /\ ResolveName(arg') = n
        /\ ~pyFiles[n].exists
        /\ shFiles[n].exists
        /\ error' # "ActionFailure") =>
         /\ pyFiles'[n].exists
         /\ \A f \in TemplateFields :
              IF f \in DOMAIN shFiles[n].assigns
              THEN pyFiles'[n].fields[f] = shFiles[n].assigns[f]
              ELSE pyFiles'[n].fields[f] \in DefaultValues(n, f)]_vars

\* The version a current-format file carries: getattr(stage, "spec_version",
\* STAGE_VERSION_2_0).
VersionOf(file) ==
  IF file.spec_version = NoSpecVersion THEN STAGE_VERSION_2_0
  ELSE file.spec_version

\* C11: migrate of a stage whose .py file carries a spec_version outside the
\* supported set reports the unsupported-version error and exits with
\* status 1 (no uncaught exception); it sources no file, reports no
\* migration, writes no file and leaves every stage file as it was.
C11_UnsupportedVersion ==
  [][\A n \in StageNames :
       (/\ Ran("migrate")
        /\ ResolveName(arg') = n
        /\ pyFiles[n].exists
        /\ VersionOf(pyFiles[n]) \notin SUPPORTED_STAGE_VERSIONS) =>
         /\ exitStatus' = 1
         /\ error' = "none"
         /\ messages' = {"unsupported_version"}
         /\ sourced' = {}
         /\ wrote' = {}
         /\ pyFiles' = pyFiles
         /\ shFiles' = shFiles]_vars

C11_Witness ==
  /\ cmd = "migrate"
  /\ pc = "exit"
  /\ exitStatus = 1
  /\ "unsupported_version" \in messages
  /\ pyFiles[ResolveName(arg)].exists
  /\ pyFiles[ResolveName(arg)].spec_version = UnsupportedVersion
  /\ shFiles[ResolveName(arg)].exists

\* C12: migrate of a stage whose detected version is the current one exits
\* with status 0 after the "already latest" message; it sources and writes
\* nothing and leaves every stage file, current or legacy, as it was.
C12_CurrentTerminal ==
  [][\A n \in StageNames :
       (/\ Ran("migrate")
        /\ ResolveName(arg') = n
        /\ pyFiles[n].exists
        /\ VersionOf(pyFiles[n]) = STAGE_VERSION_2_0) =>
         /\ exitStatus' = 0
         /\ error' = "none"
         /\ messages' = {"already_latest"}
         /\ sourced' = {}
         /\ wrote' = {}
         /\ pyFiles' = pyFiles
         /\ shFiles' = shFiles]_vars

C12_Witness ==
  /\ cmd = "migrate"
  /\ pc = "exit"
  /\ exitStatus = 0
  /\ "already_latest" \in messages
  /\ pyFiles[ResolveName(arg)] = StoredFile(ResolveName(arg), NoSpecVersion)
  /\ shFiles[ResolveName(arg)].exists

\* C13: when setup, deploy or reset is started on a stage that has only a
\* legacy file, the stage is migrated before any step runs: the process
\* does not end in its prologue, and it leaves a current-format file of the
\* current version holding the values the legacy file assigns.
C13_ResolutionMigrates ==
  [][\A n \in StageNames :
       (/\ cmd' \in {"setup", "deploy", "reset"}
        /\ runs' = runs + 1
        /\ ResolveName(arg') = n
        /\ ~pyFiles[n].exists
        /\ shFiles[n].exists) =>
         /\ pc' # "exit"
         /\ executed' = <<>>
         /\ pyFiles'[n].exists
         /\ VersionOf(pyFiles'[n]) = STAGE_VERSION_2_0
         /\ \A f \in TemplateFields \cap DOMAIN shFiles[n].assigns :
              pyFiles'[n].fields[f] = shFiles[n].assigns[f]]_vars

\* The attributes of the stage object that the steps of cloud.py read.
StageFieldsRead ==
  {"cloud_db_uri", "cloudsql_dir", "connector", "connector_cidr",
   "connector_machine_type", "connector_max_instances",
   "connector_min_instances", "connector_subnet", "database_ha_type",
   "database_instance_conn_name", "database_instance_name", "database_name",
   "database_password", "database_project", "database_region",
   "database_tier", "database_username", "enabled_stages", "gae_app_title",
   "gae_project", "gae_region", "local_db_uri", "network", "network_project",
   "notification_sender_email", "project_id", "service_account_file",
   "stage_name", "subnet", "subnet_cidr", "subnet_region", "workdir"}

\* The attributes that are not stored in the stage file: the enrichment of
\* shared.before_hook computes them at every resolution.
DerivedFields == StageFieldsRead \ ContextFieldNames

\* C14: create on a name that has no stage file builds the default context
\* without reading an undefined setting, and the file it writes holds every
\* stored field that a setup or deploy step reads.
C14_FieldsPresent ==
  [][\A n \in StageNames :
       (Ran("create") /\ ResolveName(arg') = n /\ ~pyFiles[n].exists) =>
         /\ error' # "AttributeError"
         /\ pyFiles'[n].exists
         /\ (StageFieldsRead \ DerivedFields) \subseteq DOMAIN pyFiles'[n].fields]_vars

\* The list a pipeline command declares, after its skip flags.
DeclaredList(c, flags) ==
  CASE c = "setup" -> SetupComponents
    [] c = "deploy" -> SelectSeq(DeployComponents, LAMBDA x : Keep(flags, x))
    [] c = "reset" -> ResetComponents
    [] OTHER -> <<>>

\* C15: in setup, deploy and reset the steps invoked so far are the first
\* steps of the composed list, each once and in the declared order; a run
\* that ends with status 0 has invoked exactly the declared list; and a
\* command that fails is the last command its process issues (no retry).
C15_ExactlyOnce ==
  cmd \in {"setup", "deploy", "reset"} =>
    /\ Len(executed) <= Len(components)
    /\ executed = SubSeq(components, 1, Len(executed))
    /\ idx = Len(executed) + (IF last.ok THEN 1 ELSE 0)
    /\ (pc = "exit" /\ exitStatus = 0) => executed = DeclaredList(cmd, skips)
    /\ last.failedAt > 0 => (last.failedAt = Len(last.log) /\ pc = "exit")

C15_Witness ==
  /\ cmd = "reset"
  /\ pc = "exit"
  /\ exitStatus = 0
  /\ executed = ResetComponents
  /\ last.step = "stop_cloud_sql_proxy"

\* C16: migrate looks at the current-format file first.  When the .py file
\* exists the legacy file is never sourced and the version is the one of the
\* .py file (current: already latest; v1.0: the .py file itself is sourced;
\* unsupported: rejected); the legacy file is sourced only when the .py file
\* is absent; when neither exists migrate reports that no stage file was
\* found, exits with status 1 and writes nothing.
C16_DetectionOrder ==
  [][\A n \in StageNames :
       (Ran("migrate") /\ ResolveName(arg') = n) =>
         /\ pyFiles[n].exists =>
              /\ <<n, "sh">> \notin sourced'
              /\ VersionOf(pyFiles[n]) = STAGE_VERSION_2_0 =>
                   (messages' = {"already_latest"} /\ sourced' = {})
              /\ VersionOf(pyFiles[n]) = STAGE_VERSION_1_0 =>
                   sourced' = {<<n, "py">>}
              /\ VersionOf(pyFiles[n]) \notin SUPPORTED_STAGE_VERSIONS =>
                   (messages' = {"unsupported_version"} /\ sourced' = {})
         /\ (~pyFiles[n].exists /\ shFiles[n].exists) =>
              sourced' = {<<n, "sh">>}
         /\ (~pyFiles[n].exists /\ ~shFiles[n].exists) =>
              /\ messages' = {"no_stage_file"}
              /\ exitStatus' = 1
              /\ error' = "none"
              /\ sourced' = {}
              /\ wrote' = {}
              /\ pyFiles' = pyFiles]_vars

C16_Witness ==
  /\ cmd = "migrate"
  /\ pc = "exit"
  /\ pyFiles[ResolveName(arg)].exists
  /\ pyFiles[ResolveName(arg)].spec_version = STAGE_VERSION_1_0
  /\ shFiles[ResolveName(arg)].exists
  /\ sourced = {<<ResolveName(arg), "py">>}

\* C17: an invocation of create_mysql_user_if_needed issues its existence
\* probe and then exactly one action command: set-password when the probe
\* has exited with status 0, create otherwise.
C17_UserBranch ==
  last.step = "create_mysql_user_if_needed" =>
    /\ last.probes = 1
    /\ last.actions = 1
    /\ Len(last.log) = 2
    /\ last.log[1] = "sql users list"
    /\ last.statuses[1] = 0 => last.log[2] = "sql users set-password"
    /\ last.statuses[1] # 0 => last.log[2] = "sql users create"

C17_Witness ==
  /\ last.step = "create_mysql_user_if_needed"
  /\ last.again
  /\ last.ok
  /\ last.statuses = <<0>>
  /\ last.log = <<"sql users list", "sql users set-password">>
  /\ "user" \in cloud

\* The commands of create_vpc after a negative VPC probe, the last one
\* chosen by the status of the peering probe.
VpcCommands(peering_exists) ==
  <<"networks describe", "networks create", "addresses create",
    "vpc-peerings list",
    IF peering_exists THEN "vpc-peerings update" ELSE "vpc-peerings connect">>

PeeringProbed(l) == Len(l.statuses) = 2 /\ l.statuses[2] = 0

\* C18 as stated: an invocation of create_vpc whose VPC probe is positive
\* issues nothing more; one whose VPC probe is negative issues create
\* network, allocate address range, the peering probe and then update (iff
\* the peering probe is positive) or connect.
C18_AsStated ==
  last.step = "create_vpc" =>
    IF last.statuses[1] = 0
    THEN last.log = <<"networks describe">>
    ELSE last.log = VpcCommands(PeeringProbed(last))

\* C18, amended: after a negative VPC probe the commands issued are the
\* sequence create network, allocate address range, peering probe, update
\* (iff the peering probe is positive) or connect, up to and including the
\* first action command that fails, and the whole sequence when none fails;
\* after a positive VPC probe nothing more is issued.
C18_VpcSubActions ==
  last.step = "create_vpc" =>
    IF last.statuses[1] = 0
    THEN last.log = <<"networks describe">> /\ last.actions = 0
    ELSE IF last.failedAt = 0
    THEN last.log = VpcCommands(PeeringProbed(last)) /\ last.actions = 3
    ELSE /\ last.failedAt \in {2, 3, 5}
         /\ last.log = SubSeq(VpcCommands(PeeringProbed(last)), 1, last.failedAt)

C18_Witness ==
  /\ last.step = "create_vpc"
  /\ last.ok
  /\ last.statuses = <<1, 0>>
  /\ last.log[5] = "vpc-peerings update"
  /\ {"vpc", "addr", "peering"} \subseteq cloud

\* The existence probes of the setup steps and the creation command each
\* one guards.
CreationOf ==
  [p \in {"networks describe", "vpc-peerings list", "subnets describe subnet",
          "subnets describe connector_subnet", "connectors describe",
          "app describe", "sql instances describe", "sql users list",
          "sql databases list"} |->
     CASE p = "networks describe" -> "networks create"
       [] p = "vpc-peerings list" -> "vpc-peerings connect"
       [] p = "subnets describe subnet" -> "subnets create subnet"
       [] p = "subnets describe connector_subnet" ->
            "subnets create connector_subnet"
       [] p = "connectors describe" -> "connectors create"
       [] p = "app describe" -> "app create"
       [] p = "sql instances describe" -> "sql instances create"
       [] p = "sql users list" -> "sql users create"
       [] p = "sql databases list" -> "sql databases create"]

\* The positions in a step's log of its existence probes, in order.
ProbePositions(log) ==
  SelectSeq([i \in 1..Len(log) |-> i], LAMBDA i : log[i] \in DOMAIN CreationOf)

\* C19: in setup, every existence probe that exits non-zero, whether its
\* resource exists or not, is followed at once by the creation command it
\* guards, and every probe that exits with status 0 is not.
C19_ProbeInconclusive ==
  (cmd = "setup" /\ last.step # "create_service_account_key_if_needed") =>
    LET at == ProbePositions(last.log)
    IN /\ Len(at) = Len(last.statuses)
       /\ \A j \in DOMAIN at :
            LET issued == at[j] < Len(last.log)
                            /\ last.log[at[j] + 1] = CreationOf[last.log[at[j]]]
            IN issued <=> last.statuses[j] # 0

C19_Witness ==
  /\ cmd = "setup"
  /\ last.step = "create_mysql_instance_if_needed"
  /\ last.flaked
  /\ last.statuses = <<1>>
  /\ last.log = <<"sql instances describe", "sql instances create">>
  /\ "instance" \in cloud
  /\ ~last.ok

C21_BeginRunsSetup ==
  [][Ran("begin") =>
       /\ InnerSetupComponents = SetupComponents
       /\ BuildList(InnerSetupComponents) = "none"
       /\ phase' = "setup"
       /\ pc' = "guard"
       /\ components' = SetupComponents]_vars

\* C22: a deploy or reset process that has ended after start_cloud_sql_proxy
\* completed has executed stop_cloud_sql_proxy, and has not left the
\* background proxy started, whatever step failed in between.
C22_ProxyStopped ==
  (/\ cmd \in {"deploy", "reset"}
   /\ pc = "exit"
   /\ "start_cloud_sql_proxy" \in Range(executed)
   /\ last.step # "start_cloud_sql_proxy") =>
    /\ "stop_cloud_sql_proxy" \in Range(executed)
    /\ last.ok => "proxy_running" \notin local

\* C23: when a setup process has ended with status 0 (every command it
\* issued has succeeded) and the VPC exists, the address range of the VPC
\* has been allocated and its peering exists, whatever the earlier setup
\* processes did.
C23_VpcComplete ==
  (cmd = "setup" /\ pc = "exit" /\ exitStatus = 0 /\ "vpc" \in cloud) =>
    ("addr" \in cloud /\ "peering" \in cloud)

\* C24: every file a migrate process has passed to the shell "source"
\* command is a legacy .sh stage file; a current-format .py file is never
\* sourced, whatever spec_version it declares.
C24_SourcesOnlyLegacy ==
  cmd = "migrate" => \A s \in sourced : s[2] = "sh"

\* The latest process was a migrate of stage n that found only the legacy
\* file and whose "source" command succeeded.
MigratedLegacy(n) ==
  /\ cmd = "migrate"
  /\ ResolveName(arg) = n
  /\ sourced = {<<n, "sh">>}
  /\ error # "ActionFailure"

DocumentedFallback(v) == IF v = "DATABASE_HA_ENABLED" THEN "True" ELSE "False"

\* C26: each boolean setting a process has loaded is true exactly when its
\* environment variable, or its documented fallback when the variable is
\* unset, is the string "True"; so DATABASE_HA_ENABLED is true when the
\* variable is "True" or unset and false when it is "False".
C26_BooleanSettings ==
  loaded # NoSettings =>
    \A v \in BooleanSettings :
      loaded[v] = (getenv(env, v, DocumentedFallback(v)) = "True")

====
